---- MODULE Spec2Model ----
(***************************************************************************)
(* Model of the logging relay and command dispatch core of ObjectBuilderTS *)
(*                                                                         *)
(*   LoggingService      (UI process, src/unnamed/part_000)                *)
(*   WorkerCommunicator  (backend process,                                 *)
(*                        src/ui/src/components/PreferencesDialog.tsx)     *)
(*   LogCommand/LogLevel (backend, src/unnamed/part_002)                   *)
(*   Logger              (backend,                                         *)
(*                        src/ui/src/components/PreferencesDialog.tsx)     *)
(*   LogWindow           (UI process, handleCommand of                     *)
(*                        src/ui/src/components/LogWindow.tsx)             *)
(*                                                                         *)
(* Both processes are single-threaded JavaScript: a method runs to         *)
(* completion except where it calls out to foreign code (a log listener, a *)
(* command handler's promise).  The model therefore has one action per     *)
(* method and splits a method only at such a call-out: addLog is split     *)
(* around each listener invocation, because the listener may call back     *)
(* into the service before it returns.                                     *)
(***************************************************************************)
EXTENDS Integers, Sequences, FiniteSets, TLC

VARIABLES
    logs,        \* LoggingService.logs: the live entries, oldest first
    nextId,      \* LoggingService.nextId
    listeners,   \* LoggingService.listeners: the Set, in insertion order
    frames,      \* addLog activations that are inside listeners.forEach
    issued,      \* listeners for which subscribe returned an unsubscribe closure
    electronAPI, \* whether window.electronAPI exists in this UI process
    relay,       \* commands handed to window.electronAPI.sendCommand
    relayHops,   \* history: for each of them, the boundary crossings behind it
    calls,       \* history: number of addLog calls made so far
    hist,        \* history: entries created since the last clear, in call order
    trace,       \* whether the history fields of the addLog activations are kept
    callbacks,   \* WorkerCommunicator._callbacks: command class -> callback
    registered,  \* history: the callback last given to registerCallback, per class
    pending,     \* promises returned by callbacks and not settled yet
    last,        \* history: the dispatcher operation that ran last
    ran,         \* history: the callbacks that operation invoked
    sent,        \* history: the commands that operation emitted ("command" event)
    communicator,\* whether Logger.communicator is set (backend)
    outbound,    \* commands the backend emitted, on their way to the UI process
    outboundHops,\* history: for each of them, the boundary crossings behind it
    stimuli,     \* history: calls made from outside the logging path
    probe,       \* a numeric level and what the receiving table makes of it
    tokens,      \* history: the subscribe calls made, and whether the closure
                 \* each of them returned has been invoked
    held,        \* the array a caller got from getLogs and still holds
    count,       \* what getLogCount returned last
    observed,    \* history: per listener, the addLog calls whose entry it was given
    awaiting,    \* sendToBackend activations suspended at their await
    attempts,    \* history: calls of window.electronAPI.sendCommand
    failures,    \* history: those that threw or whose promise was rejected
    emitting,    \* emit("command") activations of the WorkerCommunicator
    heard,       \* history: per "command" listener, the sends it was given
    sends,       \* history: number of sendCommand calls of the WorkerCommunicator
    win,         \* LogWindow: whether it is open and its logs state
    exported     \* what handleExport of LogWindow made last

logVars == <<logs, nextId, listeners, frames, issued, electronAPI, relay, relayHops,
             calls, hist, trace>>

dispVars == <<callbacks, registered, pending, last, ran, sent>>

sysVars == <<communicator, outbound, outboundHops, stimuli, probe>>

callerVars == <<tokens, held, count>>

orderVars == <<observed>>

relayVars == <<awaiting, attempts, failures>>

emitVars == <<emitting, heard, sends>>

winVars == <<win, exported>>

obsVars == <<callerVars, orderVars, relayVars, emitVars, winVars>>

vars == <<logs, nextId, listeners, frames, issued, electronAPI, relay, relayHops,
          calls, hist, trace,
          callbacks, registered, pending, last, ran, sent,
          communicator, outbound, outboundHops, stimuli, probe,
          tokens, held, count, observed, awaiting, attempts, failures,
          emitting, heard, sends, win, exported>>

----------------------------------------------------------------------------
(* Bounds of the model *)

\* LoggingService.maxLogs is 10000 (part_000:31); the model keeps the same
\* code with a small capacity so that eviction happens within the bounds.
maxLogs == 2

\* addLog calls per behaviour
MaxCalls == 4

\* nesting depth of addLog (a listener that records while being notified)
MaxDepth == 2

\* slots of the listener Set, counting those deleted during a running forEach
MaxSlots == 3

\* promises of callbacks pending at one time
MaxPending == 2

\* subscribe calls per behaviour, where the closures are told apart
MaxTokens == 3

\* calls of the backend Logger per behaviour, where no transport may be attached
MaxLoggerCalls == 2

\* sendCommand calls on one WorkerCommunicator per behaviour
MaxSends == 3

\* entries in a list that LogWindow exports
MaxExport == 2

\* calls made from outside the logging path in the composed system
MaxStimuli == 1

\* the largest numeric level given to the receiving table
MaxCode == 1001

----------------------------------------------------------------------------
(* Values *)

None == "undefined"

\* enum LogLevel of the UI service
LogLevel == {"debug", "info", "warn", "error", "fatal"}

\* listener functions that callers may subscribe
Listeners == {"L1", "L2"}

\* a slot of the listener Set whose element was deleted while a forEach is
\* running over it
Deleted == "deleted"

\* JavaScript values used as error arguments, thrown or given as a rejection:
\* message and stack are the properties read from the value, text is what
\* String(value) gives
NoError == [kind |-> "undefined", message |-> None, stack |-> None, text |-> "undefined"]
ErrBoom == [kind |-> "Error", message |-> "boom", stack |-> "at X", text |-> "Error: boom"]
ErrText == [kind |-> "string", message |-> None, stack |-> None, text |-> "oops"]

ErrNull == [kind |-> "null", message |-> None, stack |-> None, text |-> "null"]

\* if (error): null, undefined and the empty string are falsy
Truthy(e) ==
    /\ e.kind \notin {"undefined", "null"}
    /\ ~(e.kind = "string" /\ e.text = "")

\* reading a property of null or undefined raises a TypeError
PropertyReadRaises(e) == e.kind \in {"undefined", "null"}

\* a command as the UI process sees it: a plain object with a type field
WireCommand(type, level, message, stk, source) ==
    [type |-> type, level |-> level, message |-> message,
     stack |-> stk, source |-> source]

\* history: the addLog call records no inbound command
NoInbound == WireCommand(None, None, None, None, None)

\* the record calls the model makes: method, message, error, source
RecordCalls ==
    { [method |-> "error", message |-> "disk failure", error |-> ErrBoom, source |-> "FileLoader"] }

----------------------------------------------------------------------------
(* LoggingService *)

Last(s) == s[Len(s)]

\* slice(0, n) in place of slice(-n): the first n elements are kept
SliceFirst(s, n) ==
    IF Len(s) <= n THEN s ELSE SubSeq(s, 1, n)

\* Array.prototype.slice(-n): the last n elements (all of them if fewer)
SliceLast(s, n) ==
    IF Len(s) <= n THEN s ELSE SubSeq(s, Len(s) - n + 1, Len(s))

\* error()/fatal(): the message and stack handed to addLog
\* (of the values that are neither an Error nor a string, which the code
\* passes through JSON.stringify, the model has none that is truthy)
ErrorMessage(message, error) ==
    LET detail == IF error.kind = "Error" THEN error.message ELSE error.text
    IN  IF ~Truthy(error) THEN message
        ELSE IF message # "" THEN message \o ": " \o detail
        ELSE detail

ErrorStack(error) ==
    IF Truthy(error) /\ error.kind = "Error" THEN error.stack ELSE None

\* debug/info/warn/error/fatal: the arguments of the addLog call they make
AddLogArgs(c) ==
    IF c.method \in {"error", "fatal"}
    THEN [level |-> c.method, message |-> ErrorMessage(c.message, c.error),
          stack |-> ErrorStack(c.error), source |-> c.source]
    ELSE [level |-> c.method, message |-> c.message,
          stack |-> None, source |-> c.source]

\* the entry addLog constructs; call is the history number of the call
NewEntry(a, id, call) ==
    [id |-> id, level |-> a.level, message |-> a.message, stack |-> a.stack,
     source |-> a.source, call |-> call]

\* push without the trim
PushNoTrim(s, entry) == Append(s, entry)

\* this.logs.push(entry); if (length > maxLogs) logs = logs.slice(-maxLogs)
PushAndTrim(s, entry) ==
    LET pushed == Append(s, entry)
    IN  IF Len(pushed) > maxLogs THEN SliceLast(pushed, maxLogs) ELSE pushed

\* nextId read without the increment
IdNotIncremented(n) == n

\* nextId++ : the value left in the counter
IncrementId(n) == n + 1

\* a levelMap that numbers the levels in a row
toNumericInARow(level) ==
    CASE level = "debug" -> 2
      [] level = "info"  -> 4
      [] level = "warn"  -> 6
      [] level = "error" -> 8
      [] level = "fatal" -> 10
      [] OTHER -> 4

\* a levelMap that has no code of its own for fatal
toNumericFatalAsError(level) ==
    CASE level = "debug" -> 2
      [] level = "info"  -> 4
      [] level = "warn"  -> 6
      [] level = "error" -> 8
      [] level = "fatal" -> 8
      [] OTHER -> 4

\* levelMap of sendToBackend
toNumeric(level) ==
    CASE level = "debug" -> 2
      [] level = "info"  -> 4
      [] level = "warn"  -> 6
      [] level = "error" -> 8
      [] level = "fatal" -> 1000
      [] OTHER -> 4

\* code is running that may call the service: the outer caller when no
\* addLog is active, or the listener that the innermost addLog is inside
CanCall == IF frames = <<>> THEN TRUE ELSE Last(frames).inside

\* a Set keeps one copy of a value, in insertion order
SetAdd(s, l) ==
    IF \E i \in 1..Len(s) : s[i] = l THEN s ELSE Append(s, l)

RECURSIVE Compact(_)
Compact(s) ==
    IF s = <<>> THEN <<>>
    ELSE IF Head(s) = Deleted THEN Compact(Tail(s))
    ELSE <<Head(s)>> \o Compact(Tail(s))

\* Set.delete while a forEach may be running: running iterations skip it
SetDelete(s, l, iterating) ==
    LET marked == [i \in 1..Len(s) |-> IF s[i] = l THEN Deleted ELSE s[i]]
    IN  IF iterating THEN marked ELSE Compact(marked)

\* an addLog activation.  entry, idx and inside are the state of the call;
\* the other fields are history: the listeners invoked so far, those that
\* threw, whether the Set was changed meanwhile (these three are kept when
\* trace is set), the inbound command the call records (if any) and the
\* boundary crossings behind that command
Frame(entry, from, hops) ==
    [entry |-> entry, idx |-> 1, inside |-> FALSE,
     notified |-> <<>>, threw |-> {}, churn |-> FALSE,
     from |-> from, hops |-> hops]

\* debug/info/warn/error/fatal -> addLog, up to the start of listeners.forEach
RecordFrom(c, from, hops) ==
    /\ CanCall
    /\ calls < MaxCalls
    /\ Len(frames) < MaxDepth
    /\ LET entry == NewEntry(AddLogArgs(c), nextId, calls + 1)
       IN  /\ nextId' = IncrementId(nextId)
           /\ logs' = PushAndTrim(logs, entry)
           /\ frames' = Append(frames, Frame(entry, from, hops))
           /\ hist' = Append(hist, entry)
    /\ calls' = calls + 1
    /\ UNCHANGED <<listeners, issued, relay, relayHops, trace>>

\* a record call made by code of the UI process
Record(c) ==
    /\ RecordFrom(c, NoInbound, 0)
    /\ UNCHANGED <<electronAPI, dispVars, sysVars, obsVars>>

\* listeners.forEach: the next element of the Set is visited
NotifyOp ==
    /\ frames # <<>>
    /\ ~Last(frames).inside
    /\ Last(frames).idx <= Len(listeners)
    /\ LET f == Last(frames)
           n == Len(frames)
       IN  frames' = [frames EXCEPT ![n] =
                        IF listeners[f.idx] = Deleted
                        THEN [f EXCEPT !.idx = f.idx + 1]
                        ELSE [f EXCEPT !.inside = TRUE,
                                       !.notified = IF trace
                                                    THEN Append(f.notified, listeners[f.idx])
                                                    ELSE f.notified]]
    /\ UNCHANGED <<logs, nextId, listeners, issued, relay, relayHops, calls, hist, trace>>

Notify ==
    /\ NotifyOp
    /\ UNCHANGED <<electronAPI, dispVars, sysVars, obsVars>>

\* how a listener invocation ends
ListenerOutcomes == {"return", "throw"}

\* a forEach that passes over the element after the one it visited
SkipNext(f, outcome) == f.idx + 2

\* a forEach that a throwing listener ends
AbortForEach(f, outcome) ==
    IF outcome = "throw" THEN Len(listeners) + 1 ELSE f.idx + 1

\* the try/catch is inside the forEach callback: forEach goes on to the
\* next element whether the listener returned or threw
NextIndex(f, outcome) == f.idx + 1

\* a catch block that records the listener's error as an entry
CatchRecordsError(st) ==
    [logs |-> PushAndTrim(st.logs,
                  NewEntry([level |-> "error", message |-> "Error in log listener",
                            stack |-> None, source |-> None], st.nextId, 0)),
     nextId |-> st.nextId + 1]

\* catch (error) { console.error('Error in log listener:', error) }: the
\* store (logs, nextId) is left as it is
CatchListenerError(st) == st

\* the listener returns, or throws into the try/catch around it
ListenerDoneOp(outcome) ==
    /\ frames # <<>>
    /\ Last(frames).inside
    /\ LET f == Last(frames)
           n == Len(frames)
           st == [logs |-> logs, nextId |-> nextId]
           after == IF outcome = "throw" THEN CatchListenerError(st) ELSE st
       IN  /\ frames' = [frames EXCEPT ![n] =
                           [f EXCEPT !.inside = FALSE,
                                     !.idx = NextIndex(f, outcome),
                                     !.threw = IF trace /\ outcome = "throw"
                                               THEN f.threw \cup {Last(f.notified)}
                                               ELSE f.threw]]
           /\ logs' = after.logs
           /\ nextId' = after.nextId
    /\ UNCHANGED <<listeners, issued, relay, relayHops, calls, hist, trace>>

ListenerDone(outcome) ==
    /\ ListenerDoneOp(outcome)
    /\ UNCHANGED <<electronAPI, dispVars, sysVars, obsVars>>

\* a sendToBackend that hands the command over twice
SendToBackendTwice(r, entry, api) ==
    LET cmd == [type |-> "LogCommand", level |-> toNumeric(entry.level),
                message |-> entry.message, stack |-> entry.stack,
                source |-> entry.source]
    IN  IF api THEN r \o <<cmd, cmd>> ELSE r

\* sendToBackend up to its first await: if window.electronAPI exists, one
\* command is handed to it; whatever the send does later is swallowed
SendToBackend(r, entry, api) ==
    IF api
    THEN Append(r, [type |-> "LogCommand", level |-> toNumeric(entry.level),
                    message |-> entry.message, stack |-> entry.stack,
                    source |-> entry.source])
    ELSE r

\* what window.electronAPI.sendCommand does when it is called: it returns
\* a promise that is settled later or never, or it throws
SendOutcomes == {"pending", "throw"}

\* a catch block that records the failure of the relay as an entry
CatchRecordsRelayError(st) ==
    [logs |-> PushAndTrim(st.logs,
                  NewEntry([level |-> "error", message |-> "relay failed",
                            stack |-> None, source |-> None], st.nextId, 0)),
     nextId |-> st.nextId + 1]

\* catch (error) { /* silently fail */ }: the store is left as it is
CatchRelayError(st) == st

\* a sendToBackend that is called before the listeners are notified
ForEachStarted(f, ls) == f.idx >= 1

\* listeners.forEach has returned: every element of the Set was visited
ForEachDone(f, ls) == f.idx > Len(ls)

\* an addLog that awaits sendToBackend: the activation stays
AwaitsRelay(fs, outcome) ==
    IF outcome = "pending" THEN fs ELSE SubSeq(fs, 1, Len(fs) - 1)

\* this.sendToBackend(...) is not awaited: addLog returns whatever the send
\* does
ReturnFromAddLog(fs, outcome) == SubSeq(fs, 1, Len(fs) - 1)

\* forEach is over: sendToBackend runs up to its await, and addLog returns.
\* A sendCommand that throws is caught inside sendToBackend
FinishWith(outcome) ==
    /\ frames # <<>>
    /\ ~Last(frames).inside
    /\ ForEachDone(Last(frames), listeners)
    /\ outcome = "throw" => electronAPI
    /\ relay' = IF outcome = "throw"
                THEN relay
                ELSE SendToBackend(relay, Last(frames).entry, electronAPI)
    /\ relayHops' = IF electronAPI /\ outcome # "throw"
                    THEN Append(relayHops, Last(frames).hops + 1)
                    ELSE relayHops
    /\ frames' = IF electronAPI
                 THEN ReturnFromAddLog(frames, outcome)
                 ELSE SubSeq(frames, 1, Len(frames) - 1)
    /\ listeners' = IF Len(frames') = 0 THEN Compact(listeners) ELSE listeners
    /\ LET st == [logs |-> logs, nextId |-> nextId]
           after == IF outcome = "throw" THEN CatchRelayError(st) ELSE st
       IN  /\ logs' = after.logs
           /\ nextId' = after.nextId
    /\ UNCHANGED <<issued, calls, hist, trace>>

\* addLog with a send that does not fail before addLog has returned
FinishOp == FinishWith("pending")

Finish ==
    /\ FinishOp
    /\ UNCHANGED <<electronAPI, dispVars, sysVars, obsVars>>

\* history: the Set changed while the activations in fs were running
Churned(fs, changed) ==
    [i \in 1..Len(fs) |-> [fs[i] EXCEPT !.churn = fs[i].churn \/ (trace /\ changed)]]

SubscribeOp(l) ==
    /\ CanCall
    /\ Len(SetAdd(listeners, l)) <= MaxSlots
    /\ listeners' = SetAdd(listeners, l)
    /\ issued' = issued \cup {l}
    /\ frames' = Churned(frames, listeners' # listeners)
    /\ UNCHANGED <<logs, nextId, relay, relayHops, calls, hist, trace>>

Subscribe(l) ==
    /\ SubscribeOp(l)
    /\ UNCHANGED <<electronAPI, dispVars, sysVars, obsVars>>

\* the closure returned by subscribe(l)
UnsubscribeOp(l) ==
    /\ CanCall
    /\ l \in issued
    /\ listeners' = SetDelete(listeners, l, frames # <<>>)
    /\ frames' = Churned(frames, listeners' # listeners)
    /\ UNCHANGED <<logs, nextId, issued, relay, relayHops, calls, hist, trace>>

Unsubscribe(l) ==
    /\ UnsubscribeOp(l)
    /\ UNCHANGED <<electronAPI, dispVars, sysVars, obsVars>>

\* clear() that leaves the entries in place
ClearKeepsLogs == logs

\* clear() that leaves the counter running
ClearKeepsCounter == nextId

\* clear(): this.logs = []; this.nextId = 0
ClearedLogs == <<>>

ClearedId == 0

\* a clear() that also empties the Set of listeners
ClearDropsListeners(ls) == <<>>

\* clear() does not touch this.listeners
ListenersAfterClear(ls) == ls

ClearOp ==
    /\ CanCall
    /\ logs' = ClearedLogs
    /\ nextId' = ClearedId
    /\ hist' = <<>>
    /\ listeners' = ListenersAfterClear(listeners)
    /\ UNCHANGED <<frames, issued, relay, relayHops, calls, trace>>

Clear ==
    /\ ClearOp
    /\ UNCHANGED <<electronAPI, dispVars, sysVars, obsVars>>

getLogCount == Len(logs)

\* a filter argument; a field that is absent (or falsy) does not filter
NoFilter == [level |-> None, source |-> None]

FilterSet(x) == x \notin {None, ""}

getLogs(filter) ==
    LET byLevel == IF FilterSet(filter.level)
                   THEN SelectSeq(logs, LAMBDA e : e.level = filter.level)
                   ELSE logs
    IN  IF FilterSet(filter.source)
        THEN SelectSeq(byLevel, LAMBDA e : e.source = filter.source)
        ELSE byLevel

(* LoggingService, the whole *)

InitLog ==
    /\ logs = <<>>
    /\ nextId = 0
    /\ listeners = <<>>
    /\ frames = <<>>
    /\ issued = {}
    /\ electronAPI \in BOOLEAN
    /\ relay = <<>>
    /\ relayHops = <<>>
    /\ calls = 0
    /\ hist = <<>>

\* a record call made while no addLog is running
RecordOuter(c) ==
    /\ frames = <<>>
    /\ Record(c)

\* the Log Store with listeners that subscribe, unsubscribe, clear, return
\* or throw, but do not record
NextNotify ==
    \/ \E c \in RecordCalls : RecordOuter(c)
    \/ Notify
    \/ \E o \in ListenerOutcomes : ListenerDone(o)
    \/ Finish
    \/ \E l \in Listeners : Subscribe(l)
    \/ \E l \in Listeners : Unsubscribe(l)
    \/ Clear

NextLog ==
    \/ \E c \in RecordCalls : Record(c)
    \/ Notify
    \/ \E o \in ListenerOutcomes : ListenerDone(o)
    \/ Finish
    \/ \E l \in Listeners : Subscribe(l)
    \/ \E l \in Listeners : Unsubscribe(l)
    \/ Clear

----------------------------------------------------------------------------
(* LoggingService and a caller that keeps what it was given: the closures  *)
(* returned by subscribe and the array returned by getLogs                 *)

\* record calls of the caller: the two of the example of getLogs
CallerCalls ==
    RecordCalls \cup
    { [method |-> "info", message |-> "ready", error |-> NoError, source |-> None] }

\* filter arguments of the caller
Filters ==
    { NoFilter,
      [level |-> "error", source |-> None],
      [level |-> "info", source |-> "FileLoader"],
      [level |-> None, source |-> ""] }

\* what the operation leaves alone outside the Log Store
CallerRest ==
    /\ UNCHANGED <<orderVars, relayVars, emitVars, winVars>>
    /\ UNCHANGED <<electronAPI, dispVars, sysVars>>

\* push changes the array in place, so an array given out by getLogs that is
\* this.logs gets the entry too; slice then makes a new array for this.logs.
\* fresh is history: the store has not changed since getLogs returned
HeldAfterPush(h, ls, entry) ==
    IF h.alias
    THEN [h EXCEPT !.value = Append(ls, entry),
                   !.alias = Len(ls) + 1 <= maxLogs,
                   !.fresh = FALSE]
    ELSE [h EXCEPT !.fresh = FALSE]

CallerRecord(c) ==
    /\ frames = <<>>
    /\ RecordFrom(c, NoInbound, 0)
    /\ held' = HeldAfterPush(held, logs, Last(logs'))
    /\ UNCHANGED <<tokens, count>>
    /\ CallerRest

\* this.logs = []: a new array, the one given out stays as it is
CallerClear ==
    /\ frames = <<>>
    /\ ClearOp
    /\ held' = [held EXCEPT !.alias = FALSE, !.fresh = FALSE]
    /\ UNCHANGED <<tokens, count>>
    /\ CallerRest

\* the listener the caller subscribes
CallerListeners == {"L1"}

CallerSubscribe(l) ==
    /\ frames = <<>>
    /\ Subscribe(l)

CallerUnsubscribe(l) ==
    /\ frames = <<>>
    /\ Unsubscribe(l)

\* getLogs assigns to the local variable filtered only
LogsAfterGetLogs(ls, filter) == ls

\* getLogs(filter): without a field that filters, what is returned is
\* this.logs itself; Array.filter makes a new array
GetLogs(filter) ==
    /\ frames = <<>>
    /\ held' = [given |-> TRUE,
                alias |-> ~FilterSet(filter.level) /\ ~FilterSet(filter.source),
                value |-> getLogs(filter), returned |-> getLogs(filter),
                filter |-> filter, fresh |-> TRUE, touched |-> FALSE]
    /\ logs' = LogsAfterGetLogs(logs, filter)
    /\ UNCHANGED <<nextId, listeners, frames, issued, relay, relayHops, calls, hist, trace>>
    /\ UNCHANGED <<tokens, count>>
    /\ CallerRest

GetLogCount ==
    /\ frames = <<>>
    /\ count' = getLogCount
    /\ UNCHANGED <<logs, nextId, listeners, frames, issued, relay, relayHops, calls,
                   hist, trace>>
    /\ UNCHANGED <<tokens, held>>
    /\ CallerRest

\* the caller removes the last element of the array it holds (pop)
CallerPops ==
    /\ frames = <<>>
    /\ held.given
    /\ held.value # <<>>
    /\ LET popped == SubSeq(held.value, 1, Len(held.value) - 1)
       IN  /\ held' = [held EXCEPT !.value = popped, !.touched = TRUE,
                                   !.fresh = FALSE]
           /\ logs' = IF held.alias THEN popped ELSE logs
    /\ UNCHANGED <<nextId, listeners, frames, issued, relay, relayHops, calls, hist, trace>>
    /\ UNCHANGED <<tokens, count>>
    /\ CallerRest

NextCaller ==
    \/ \E c \in CallerCalls : CallerRecord(c)
    \/ Notify
    \/ \E o \in ListenerOutcomes : ListenerDone(o)
    \/ Finish
    \/ CallerClear
    \/ \E l \in CallerListeners : CallerSubscribe(l)
    \/ \E l \in CallerListeners : CallerUnsubscribe(l)
    \/ \E f \in Filters : GetLogs(f)
    \/ GetLogCount
    \/ CallerPops

----------------------------------------------------------------------------
(* LoggingService and a caller that keeps the closures subscribe returned *)

\* subscribe(l), the caller keeping the closure
SubscribeToken(l) ==
    /\ Len(tokens) < MaxTokens
    /\ SubscribeOp(l)
    /\ tokens' = Append(tokens, [listener |-> l, invoked |-> FALSE])
    /\ UNCHANGED <<held, count>>
    /\ CallerRest

\* the closure that the k-th subscribe call returned is invoked
InvokeClosure(k) ==
    /\ k \in 1..Len(tokens)
    /\ UnsubscribeOp(tokens[k].listener)
    /\ tokens' = [tokens EXCEPT ![k].invoked = TRUE]
    /\ UNCHANGED <<held, count>>
    /\ CallerRest

NextSubscription ==
    \/ \E c \in RecordCalls : RecordOuter(c)
    \/ Notify
    \/ \E o \in ListenerOutcomes : ListenerDone(o)
    \/ Finish
    \/ \E l \in Listeners : SubscribeToken(l)
    \/ \E k \in 1..MaxTokens : InvokeClosure(k)

----------------------------------------------------------------------------
(* LoggingService with listeners that record *)

\* listener(entry): the listener is handed the entry of this addLog.
\* observed is history: the record calls whose entries each listener was
\* handed, in the order it was handed them
ObservedAfter(o, fs, ls) ==
    LET f == Last(fs)
    IN  IF f.idx <= Len(ls) /\ ls[f.idx] # Deleted
        THEN [o EXCEPT ![ls[f.idx]] = Append(@, f.entry.call)]
        ELSE o

ReentrantRest ==
    /\ UNCHANGED <<callerVars, relayVars, emitVars, winVars>>
    /\ UNCHANGED <<electronAPI, dispVars, sysVars>>

\* a record call by the outer caller or by the listener that is running
ReentrantRecord(c) ==
    /\ RecordFrom(c, NoInbound, 0)
    /\ UNCHANGED observed
    /\ ReentrantRest

ReentrantNotify ==
    /\ NotifyOp
    /\ observed' = ObservedAfter(observed, frames, listeners)
    /\ ReentrantRest

\* subscriptions are made before entries are recorded
ReentrantSubscribe(l) ==
    /\ frames = <<>>
    /\ calls = 0
    /\ Subscribe(l)

NextReentrant ==
    \/ \E c \in RecordCalls : ReentrantRecord(c)
    \/ ReentrantNotify
    \/ \E o \in ListenerOutcomes : ListenerDone(o)
    \/ Finish
    \/ \E l \in Listeners : ReentrantSubscribe(l)

----------------------------------------------------------------------------
(* LoggingService and the outcomes of window.electronAPI.sendCommand *)

RelayRest ==
    /\ UNCHANGED <<callerVars, orderVars, emitVars, winVars>>
    /\ UNCHANGED <<electronAPI, dispVars, sysVars>>

\* the end of addLog with what sendCommand does.  attempts, awaiting and
\* failures are history: the calls of sendCommand, the promises it returned
\* that are not settled, the failures the catch of sendToBackend took
RelayFinish(outcome) ==
    /\ FinishWith(outcome)
    /\ attempts' = IF electronAPI THEN attempts + 1 ELSE attempts
    /\ awaiting' = IF electronAPI /\ outcome = "pending" THEN awaiting + 1 ELSE awaiting
    /\ failures' = IF outcome = "throw"
                   THEN [failures EXCEPT !.thrown = @ + 1]
                   ELSE failures
    /\ RelayRest

\* how a promise returned by sendCommand is settled
Settlements == {"resolve", "reject"}

\* the promise of a send is settled: sendToBackend goes on after its await,
\* into the catch block when the promise was rejected, and ends
RelaySettle(how) ==
    /\ awaiting > 0
    /\ frames = <<>>
    /\ awaiting' = awaiting - 1
    /\ failures' = IF how = "reject"
                   THEN [failures EXCEPT !.rejected = @ + 1]
                   ELSE failures
    /\ LET st == [logs |-> logs, nextId |-> nextId]
           after == IF how = "reject" THEN CatchRelayError(st) ELSE st
       IN  /\ logs' = after.logs
           /\ nextId' = after.nextId
    /\ UNCHANGED <<listeners, frames, issued, relay, relayHops, calls, hist, trace>>
    /\ UNCHANGED attempts
    /\ RelayRest

NextRelay ==
    \/ \E c \in RecordCalls : RecordOuter(c)
    \/ Notify
    \/ \E o \in ListenerOutcomes : ListenerDone(o)
    \/ \E o \in SendOutcomes : RelayFinish(o)
    \/ \E h \in Settlements : RelaySettle(h)
    \/ \E l \in Listeners : ReentrantSubscribe(l)

----------------------------------------------------------------------------
(* LogCommand and the backend LogLevel *)

\* enum LogLevel of the backend
LogLevelDEBUG == 2

LogLevelINFO == 4

LogLevelWARN == 6

LogLevelERROR == 8

LogLevelFATAL == 1000

\* new LogCommand(level, message, stack, source)
LogCommand(level, message, stk, source) ==
    [cls |-> "LogCommand", level |-> level, message |-> message,
     stack |-> stk, source |-> source]

----------------------------------------------------------------------------
(* WorkerCommunicator *)

\* command classes.  LogCommandCopy is a class that is not LogCommand but
\* whose constructor.name is 'LogCommand' (handleCommand tests both).
CommandClasses == {"LogCommand", "LogCommandCopy", "FooCommand", "BarCommand"}

ConstructorName(cls) ==
    IF cls = "LogCommandCopy" THEN "LogCommand" ELSE cls

\* a dispatcher that takes every command for a plain one
NeverLogCommand(cmd) == FALSE

InstanceOfLogCommand(cmd) == cmd.cls = "LogCommand"

\* a command of a class other than LogCommand; its fields play no part
PlainCommand(cls) ==
    [cls |-> cls, level |-> None, message |-> None, stack |-> None, source |-> None]

\* the commands given to handleCommand
Commands ==
    { PlainCommand(c) : c \in CommandClasses \ {"LogCommand"} }
        \cup { LogCommand(LogLevelERROR, "backend failure", "at Y", "Storage"),
               LogCommand(LogLevelINFO, "loaded", None, None) }

\* history: the operation had no command
NoCommand == PlainCommand(None)

\* callback functions
Callbacks == {"h1", "h2"}

\* values a callback throws or rejects with
Thrown == {ErrBoom, ErrText, ErrNull}

\* what a callback does when invoked
Outcomes ==
    { [kind |-> "return", value |-> NoError], [kind |-> "promise", value |-> NoError] }
        \cup { [kind |-> "throw", value |-> e] : e \in Thrown }

\* `${error.message || error}`
ErrorDetail(e) ==
    IF e.message \notin {None, ""} THEN e.message ELSE e.text

\* a registry in which the first registration of a class wins
MapSetIfAbsent(m, k, v) == IF m[k] = None THEN [m EXCEPT ![k] = v] ELSE m

\* registerCallback: this._callbacks.set(commandClass, callback)
MapSet(m, k, v) == [m EXCEPT ![k] = v]

\* this._callbacks.get(command.constructor)
Lookup(cbs, cmd) == cbs[cmd.cls]

\* the unknown command reported as an error of the dispatcher
NoCallbackLogAsError(cmd) ==
    LogCommand(LogLevelERROR,
               "No callback registered for command: " \o ConstructorName(cmd.cls),
               None, "WorkerCommunicator")

\* the LogCommand of the branch `if (!callback)`
NoCallbackLog(cmd) ==
    LogCommand(LogLevelWARN,
               "No callback registered for command: " \o ConstructorName(cmd.cls),
               None, "WorkerCommunicator")

\* the LogCommand of the catch block around the callback
CallbackErrorLog(cmd, e) ==
    LogCommand(LogLevelERROR,
               "Error in callback for " \o ConstructorName(cmd.cls) \o ": " \o ErrorDetail(e),
               e.stack, "WorkerCommunicator")

\* the LogCommand of the continuation given to result.catch
AsyncErrorLog(cls, e) ==
    LogCommand(LogLevelERROR,
               "Error in async callback for " \o ConstructorName(cls) \o ": " \o ErrorDetail(e),
               e.stack, "WorkerCommunicator")

\* the catch block: what it emits, and whether it raises itself
CatchBlock(cmd, e) ==
    IF PropertyReadRaises(e)
    THEN [sent |-> <<>>, raised |-> TRUE]
    ELSE [sent |-> <<CallbackErrorLog(cmd, e)>>, raised |-> FALSE]

\* the continuation of result.catch: what it emits, and whether it raises
\* itself, which leaves the promise that catch returned rejected and unhandled
CatchContinuation(cls, e) ==
    IF PropertyReadRaises(e)
    THEN [sent |-> <<>>, raised |-> TRUE]
    ELSE [sent |-> <<AsyncErrorLog(cls, e)>>, raised |-> FALSE]

\* a dispatcher that reports every callback that returned
EmittedOnSuccessDebug(cmd) ==
    <<LogCommand(LogLevelDEBUG, "Handled " \o ConstructorName(cmd.cls),
                 None, "WorkerCommunicator")>>

\* the callback returned, a value or a promise: nothing is emitted in the
\* try block
EmittedOnSuccess(cmd) == <<>>

\* a dispatcher that retries the callback
InvokeTwice(cb) == <<cb, cb>>

\* the callbacks handleCommand invokes for a command that has one
Invoke(cb) == <<cb>>

\* a dispatcher that unregisters a callback that threw
DropFailedCallback(cbs, cmd, o) ==
    IF o.kind = "throw" THEN [cbs EXCEPT ![cmd.cls] = None] ELSE cbs

\* handleCommand never writes this._callbacks
CallbacksAfterHandle(cbs, cmd, o) == cbs

\* handleCommand(command), the callback doing o when it is invoked
HandleCommandOp(cmd, o) ==
    LET cb == Lookup(callbacks, cmd)
        name == ConstructorName(cmd.cls)
        caught == CatchBlock(cmd, o.value)
        done(path, emitted, invoked, raised) ==
            /\ sent' = emitted
            /\ ran' = invoked
            /\ last' = [op |-> "handleCommand", cls |-> cmd.cls, cmd |-> cmd,
                        path |-> path,
                        outcome |-> IF path = "invoked" THEN o.kind ELSE "none",
                        value |-> IF path = "invoked" THEN o.value ELSE NoError,
                        raised |-> raised, cb |-> None, prev |-> None]
    IN  /\ callbacks' = CallbacksAfterHandle(callbacks, cmd, o)
        /\ IF InstanceOfLogCommand(cmd)
           THEN /\ done("forward", <<cmd>>, <<>>, FALSE)
                /\ UNCHANGED pending
           ELSE IF cb = None
           THEN /\ IF name = "LogCommand"
                   THEN done("ignored", <<>>, <<>>, FALSE)
                   ELSE done("nohandler", <<NoCallbackLog(cmd)>>, <<>>, FALSE)
                /\ UNCHANGED pending
           ELSE IF o.kind = "throw"
           THEN /\ done("invoked", caught.sent, Invoke(cb), caught.raised)
                /\ UNCHANGED pending
           ELSE /\ done("invoked", EmittedOnSuccess(cmd), Invoke(cb), FALSE)
                /\ pending' = IF o.kind = "promise"
                              THEN Append(pending, cmd.cls) ELSE pending
        /\ o.kind = "promise" => Len(pending) < MaxPending
        /\ UNCHANGED registered

\* handleCommand with no listener on the "command" event
HandleCommand(cmd, o) ==
    /\ HandleCommandOp(cmd, o)
    /\ UNCHANGED <<logVars, sysVars, obsVars>>

RemoveAt(s, i) == SubSeq(s, 1, i - 1) \o SubSeq(s, i + 1, Len(s))

\* the promise a callback returned is resolved: the continuation does not run
Resolve(i) ==
    /\ i \in 1..Len(pending)
    /\ pending' = RemoveAt(pending, i)
    /\ sent' = <<>>
    /\ ran' = <<>>
    /\ last' = [op |-> "settle", cls |-> pending[i], cmd |-> NoCommand,
                path |-> "resolve", outcome |-> "none", value |-> NoError,
                raised |-> FALSE, cb |-> None, prev |-> None]
    /\ UNCHANGED <<callbacks, registered>>
    /\ UNCHANGED <<logVars, sysVars, obsVars>>

\* the promise a callback returned is rejected with e: the continuation runs
RejectOp(i, e) ==
    /\ i \in 1..Len(pending)
    /\ pending' = RemoveAt(pending, i)
    /\ LET c == CatchContinuation(pending[i], e)
       IN  /\ sent' = c.sent
           /\ last' = [op |-> "settle", cls |-> pending[i], cmd |-> NoCommand,
                       path |-> "reject", outcome |-> "none", value |-> e,
                       raised |-> c.raised, cb |-> None, prev |-> None]
    /\ ran' = <<>>
    /\ UNCHANGED <<callbacks, registered>>

\* the rejection with no listener on the "command" event
Reject(i, e) ==
    /\ RejectOp(i, e)
    /\ UNCHANGED <<logVars, sysVars, obsVars>>

RegisterCallback(cls, cb) ==
    /\ callbacks' = MapSet(callbacks, cls, cb)
    /\ registered' = [registered EXCEPT ![cls] = cb]
    /\ sent' = <<>>
    /\ ran' = <<>>
    /\ last' = [op |-> "register", cls |-> cls, cmd |-> NoCommand,
                path |-> "none", outcome |-> "none", value |-> NoError,
                raised |-> FALSE, cb |-> cb, prev |-> callbacks[cls]]
    /\ UNCHANGED pending
    /\ UNCHANGED <<logVars, sysVars, obsVars>>

InitDispatch ==
    /\ callbacks = [c \in CommandClasses |-> None]
    /\ registered = [c \in CommandClasses |-> None]
    /\ pending = <<>>
    /\ sent = <<>>
    /\ ran = <<>>
    /\ last = [op |-> "new", cls |-> None, cmd |-> NoCommand,
               path |-> "none", outcome |-> "none", value |-> NoError,
               raised |-> FALSE, cb |-> None, prev |-> None]

NextDispatch ==
    \/ \E cmd \in Commands, o \in Outcomes : HandleCommand(cmd, o)
    \/ \E i \in 1..MaxPending : Resolve(i)
    \/ \E i \in 1..MaxPending, e \in Thrown : Reject(i, e)
    \/ \E cls \in CommandClasses, cb \in Callbacks : RegisterCallback(cls, cb)

----------------------------------------------------------------------------
(* Logger (backend) *)

\* Logger.debug/info/warn/error/fatal: the LogLevel handed to sendLog
LoggerLevel(method) ==
    CASE method = "debug" -> LogLevelDEBUG
      [] method = "info"  -> LogLevelINFO
      [] method = "warn"  -> LogLevelWARN
      [] method = "error" -> LogLevelERROR
      [] method = "fatal" -> LogLevelFATAL

\* the calls of the backend Logger the model makes
LoggerCalls ==
    { [method |-> m, message |-> "backend event", error |-> NoError,
       source |-> "Storage", context |-> None] : m \in {"debug", "info", "warn"} }
    \cup
    { [method |-> m, message |-> "backend failure", error |-> ErrBoom,
       source |-> None, context |-> "{file:1}"] : m \in {"error", "fatal"} }

\* a context object that refers to itself
Circular == "[Circular]"

\* JSON.stringify(context) raises a TypeError for a circular structure
StringifyRaises(context) == context = Circular

\* sendLog without a communicator: the console method that takes the message
ConsoleFallback(level) ==
    IF level >= LogLevelERROR THEN "console.error"
    ELSE IF level >= LogLevelWARN THEN "console.warn"
    ELSE "console.log"

\* sendLog with a communicator: the LogCommand given to sendCommand
\* (error?.stack; the context is appended to the message as JSON)
SendLog(level, message, error, source, context) ==
    LET stk == IF PropertyReadRaises(error) THEN None ELSE error.stack
        fullMessage == IF context \notin {None, ""}
                       THEN message \o " | Context: " \o context
                       ELSE message
    IN  LogCommand(level, fullMessage, stk, source)

\* Logger.setCommunicator
SetCommunicator ==
    /\ ~communicator
    /\ communicator' = TRUE
    /\ UNCHANGED <<outbound, outboundHops, stimuli, probe>>
    /\ UNCHANGED <<logVars, dispVars, obsVars>>

----------------------------------------------------------------------------
(* LogWindow: the table applied to the level of a received command *)

\* a command without a level: levelMap[undefined] is undefined, as is the
\* lookup of any key that is not in the table
NoLevel == -1

\* levelMap[command.level]
WindowLevelMap(code) ==
    CASE code = 2    -> "debug"
      [] code = 4    -> "info"
      [] code = 6    -> "warn"
      [] code = 8    -> "error"
      [] code = 1000 -> "fatal"
      [] OTHER       -> None

\* a table that takes every level from 1000 up for fatal
fromNumericByThreshold(code) ==
    IF code >= 1000 THEN "fatal"
    ELSE IF WindowLevelMap(code) # None THEN WindowLevelMap(code) ELSE "info"

\* levelMap[command.level] || LogLevel.INFO
fromNumeric(code) ==
    IF WindowLevelMap(code) # None THEN WindowLevelMap(code) ELSE "info"

\* the levels given to the table: none, and every integer up to MaxCode
Codes == {NoLevel} \cup (0..MaxCode)

Probe(code) ==
    /\ probe' = [code |-> code, level |-> fromNumeric(code)]
    /\ UNCHANGED <<communicator, outbound, outboundHops, stimuli>>
    /\ UNCHANGED <<logVars, dispVars, obsVars>>

----------------------------------------------------------------------------
(* LogWindow: recording the log commands that arrive from the backend *)

\* new Error(stack): the text becomes the message; the stack property is the
\* trace of the place where the Error was made, headed by the message
NewError(text) ==
    [kind |-> "Error", message |-> text,
     stack |-> "Error: " \o text \o " at handleCommand", text |-> "Error: " \o text]

\* JSON.stringify(command)
Stringify(w) == "{type:" \o w.type \o "}"

\* handleCommand of LogWindow: the logger call it makes for a log command
InboundCall(w) ==
    LET level == fromNumeric(w.level)
        message == IF w.message \notin {None, ""} THEN w.message ELSE Stringify(w)
    IN  IF level \in {"error", "fatal"}
        THEN [method |-> "error", message |-> message,
              error |-> IF w.stack \notin {None, ""} THEN NewError(w.stack) ELSE NoError,
              source |-> w.source]
        ELSE IF level = "warn"
        THEN [method |-> "warn", message |-> message, error |-> NoError,
              source |-> w.source]
        ELSE IF level = "debug"
        THEN [method |-> "debug", message |-> message, error |-> NoError,
              source |-> w.source]
        ELSE [method |-> "info", message |-> message, error |-> NoError,
              source |-> w.source]

----------------------------------------------------------------------------
(* The two processes composed.  The transport between them is not part of  *)
(* the sources at hand; it is modelled as the specification describes it:  *)
(* a command handed to a channel arrives at the other process, commands of *)
(* one channel in the order they were sent; the backend endpoint gives     *)
(* what arrives to handleCommand, the UI endpoint to the onCommand         *)
(* listeners.                                                              *)

\* the command object the backend endpoint makes of a relayed log command
Deserialize(w) == LogCommand(w.level, w.message, w.stack, w.source)

\* the object the UI endpoint makes of a command the backend emitted
Serialize(cmd) ==
    WireCommand(ConstructorName(cmd.cls), cmd.level, cmd.message, cmd.stack, cmd.source)

\* the commands emitted are on their way to the UI process
Emit(cmds, hops) ==
    /\ outbound' = outbound \o cmds
    /\ outboundHops' = outboundHops \o [i \in 1..Len(cmds) |-> hops]

\* record calls of UI code in the composed system, one of each level
UiCalls ==
    { [method |-> m, message |-> "ui event", error |-> NoError, source |-> "Panel"]
        : m \in {"debug", "info", "warn"} }
    \cup
    { [method |-> m, message |-> "ui failure", error |-> ErrBoom, source |-> None]
        : m \in {"error", "fatal"} }

\* a record call of UI code
UiRecord(c) ==
    /\ stimuli < MaxStimuli
    /\ frames = <<>>
    /\ RecordFrom(c, NoInbound, 0)
    /\ stimuli' = stimuli + 1
    /\ UNCHANGED <<communicator, outbound, outboundHops, probe>>
    /\ UNCHANGED <<electronAPI, dispVars, obsVars>>

\* a call of the backend Logger: without a communicator the console takes
\* the message; with one the LogCommand is emitted, unless JSON.stringify of
\* the context raises, which ends the call.  In last, outcome is the console
\* method that was called and raised tells that the call raised
LoggerCallOp(c) ==
    /\ LET raises == communicator /\ StringifyRaises(c.context)
           emitted == IF communicator /\ ~raises
                      THEN <<SendLog(LoggerLevel(c.method), c.message, c.error,
                                     c.source, c.context)>>
                      ELSE <<>>
       IN  /\ sent' = emitted
           /\ Emit(emitted, 1)
           /\ last' = [op |-> "logger", cls |-> "LogCommand", cmd |-> NoCommand,
                       path |-> c.method,
                       outcome |-> IF communicator
                                   THEN "none"
                                   ELSE ConsoleFallback(LoggerLevel(c.method)),
                       value |-> NoError,
                       raised |-> raises, cb |-> None, prev |-> None]
    /\ ran' = <<>>

LoggerCall(c) ==
    /\ stimuli < MaxStimuli
    /\ LoggerCallOp(c)
    /\ stimuli' = stimuli + 1
    /\ UNCHANGED <<callbacks, registered, pending>>
    /\ UNCHANGED <<communicator, probe>>
    /\ UNCHANGED <<logVars, obsVars>>

\* the commands other than log commands that reach the backend
SysCommands == { PlainCommand("FooCommand") }

SysOutcomes ==
    { [kind |-> "return", value |-> NoError], [kind |-> "promise", value |-> NoError],
      [kind |-> "throw", value |-> ErrBoom] }

\* a command of the application arrives at the backend
SysHandleCommand(cmd, o) ==
    /\ stimuli < MaxStimuli
    /\ HandleCommandOp(cmd, o)
    /\ Emit(sent', 1)
    /\ stimuli' = stimuli + 1
    /\ UNCHANGED <<communicator, probe>>
    /\ UNCHANGED <<logVars, obsVars>>

SysReject(i, e) ==
    /\ RejectOp(i, e)
    /\ Emit(sent', 1)
    /\ UNCHANGED <<communicator, stimuli, probe>>
    /\ UNCHANGED <<logVars, obsVars>>

\* a log command somebody else sent arrives at the UI process
ExternalCommands ==
    { WireCommand("LogCommand", 1000, "engine halted", None, "Engine"),
      WireCommand("log", 999, "", "at Z", None),
      WireCommand("LogCommand", NoLevel, "no level", None, None) }

ExternalArrives(w) ==
    /\ stimuli < MaxStimuli
    /\ Emit(<<[cls |-> w.type, level |-> w.level, message |-> w.message,
               stack |-> w.stack, source |-> w.source]>>, 1)
    /\ stimuli' = stimuli + 1
    /\ UNCHANGED <<communicator, probe>>
    /\ UNCHANGED <<logVars, dispVars, obsVars>>

\* the relayed command that was sent first arrives at the backend and is
\* given to handleCommand
BackendReceive ==
    /\ relay # <<>>
    /\ HandleCommandOp(Deserialize(Head(relay)), [kind |-> "return", value |-> NoError])
    /\ Emit(sent', Head(relayHops) + 1)
    /\ relay' = Tail(relay)
    /\ relayHops' = Tail(relayHops)
    /\ UNCHANGED <<logs, nextId, listeners, frames, issued, electronAPI, calls, hist, trace>>
    /\ UNCHANGED <<communicator, stimuli, probe, obsVars>>

\* the command the backend emitted first arrives at the UI process and is
\* given to handleCommand of LogWindow (worker.onCommand)
UiReceive ==
    /\ outbound # <<>>
    /\ frames = <<>>
    /\ LET w == Serialize(Head(outbound))
       IN  IF w.type \in {"LogCommand", "log"}
           THEN RecordFrom(InboundCall(w), w, Head(outboundHops))
           ELSE UNCHANGED <<logs, nextId, listeners, frames, issued, relay,
                            relayHops, calls, hist, trace>>
    /\ outbound' = Tail(outbound)
    /\ outboundHops' = Tail(outboundHops)
    /\ UNCHANGED <<communicator, stimuli, probe>>
    /\ UNCHANGED <<electronAPI, dispVars, obsVars>>

\* the "command" listeners of the WorkerCommunicator
CommandListeners == {"E1", "E2"}

\* LogWindow before it is opened: useState([]).  shown is the logs state,
\* alias tells that this array is the array of the store, since is history:
\* the entries recorded since the open window loaded or emptied its list
WindowClosed == [open |-> FALSE, shown |-> <<>>, alias |-> FALSE, since |-> <<>>]

\* before handleExport has run
NothingExported == [done |-> FALSE, list |-> <<>>, raised |-> FALSE, text |-> ""]

\* what a caller holds before it has called getLogs
NothingHeld ==
    [given |-> FALSE, alias |-> FALSE, value |-> <<>>, returned |-> <<>>,
     filter |-> NoFilter, fresh |-> FALSE, touched |-> FALSE]

InitObs ==
    /\ tokens = <<>>
    /\ held = NothingHeld
    /\ count = 0
    /\ observed = [l \in Listeners |-> <<>>]
    /\ awaiting = 0
    /\ attempts = 0
    /\ failures = [thrown |-> 0, rejected |-> 0]
    /\ emitting = <<>>
    /\ heard = [l \in CommandListeners |-> <<>>]
    /\ sends = 0
    /\ win = WindowClosed
    /\ exported = NothingExported

InitSys ==
    /\ communicator = FALSE
    /\ outbound = <<>>
    /\ outboundHops = <<>>
    /\ stimuli = 0
    /\ probe = [code |-> NoLevel, level |-> fromNumeric(NoLevel)]

NextSeverity == \E code \in Codes : Probe(code)

NextSystem ==
    \/ \E c \in UiCalls : UiRecord(c)
    \/ Finish
    \/ \E c \in LoggerCalls : LoggerCall(c)
    \/ SetCommunicator
    \/ \E cmd \in SysCommands, o \in SysOutcomes : SysHandleCommand(cmd, o)
    \/ \E i \in 1..MaxPending : Resolve(i)
    \/ \E i \in 1..MaxPending : SysReject(i, ErrBoom)
    \/ RegisterCallback("FooCommand", "h1")
    \/ \E w \in ExternalCommands : ExternalArrives(w)
    \/ BackendReceive
    \/ UiReceive

----------------------------------------------------------------------------
(* Logger and LoggingService with and without a transport *)

\* Logger calls with no context, with a plain one and with a circular one
FallbackCalls ==
    { [method |-> "info", message |-> "backend event", error |-> NoError,
       source |-> "Storage", context |-> None] }
    \cup
    { [method |-> "error", message |-> "backend failure", error |-> ErrBoom,
       source |-> None, context |-> x] : x \in {"{file:1}", Circular} }

FallbackLogger(c) ==
    /\ stimuli < MaxLoggerCalls
    /\ LoggerCallOp(c)
    /\ stimuli' = stimuli + 1
    /\ UNCHANGED <<callbacks, registered, pending>>
    /\ UNCHANGED <<communicator, probe>>
    /\ UNCHANGED <<logVars, obsVars>>

NextFallback ==
    \/ \E c \in FallbackCalls : FallbackLogger(c)
    \/ SetCommunicator
    \/ \E c \in RecordCalls : RecordOuter(c)
    \/ Notify
    \/ \E o \in ListenerOutcomes : ListenerDone(o)
    \/ Finish
    \/ \E l \in Listeners : ReentrantSubscribe(l)

----------------------------------------------------------------------------
(* WorkerCommunicator.sendCommand: emit("command", command) of EventEmitter *)

\* the listeners of "command" in the order they were added
CommandOrder == <<"E1", "E2">>

\* code is running that may call sendCommand: the outer caller when no emit
\* is active, or the listener that the innermost emit is inside
CanSend == IF emitting = <<>> THEN TRUE ELSE Last(emitting).inside

EmitRest ==
    /\ UNCHANGED <<callerVars, orderVars, relayVars, winVars>>
    /\ UNCHANGED <<logVars, dispVars, sysVars>>

\* sendCommand(command): emit starts; commands are numbered as they are sent
SendCommand ==
    /\ CanSend
    /\ sends < MaxSends
    /\ Len(emitting) < MaxDepth
    /\ emitting' = Append(emitting, [cmd |-> sends + 1, idx |-> 1, inside |-> FALSE])
    /\ sends' = sends + 1
    /\ UNCHANGED heard
    /\ EmitRest

\* emit calls the next listener with the command
Deliver ==
    /\ emitting # <<>>
    /\ ~Last(emitting).inside
    /\ Last(emitting).idx <= Len(CommandOrder)
    /\ LET e == Last(emitting)
           l == CommandOrder[e.idx]
       IN  /\ emitting' = [emitting EXCEPT ![Len(emitting)].inside = TRUE]
           /\ heard' = [heard EXCEPT ![l] = Append(@, e.cmd)]
    /\ UNCHANGED sends
    /\ EmitRest

\* the listener returns and emit goes on to the next one, or it throws:
\* emit has no try/catch, the error ends emit and sendCommand and comes out
\* in the code that called sendCommand
EmitAfterListener(es, outcome) ==
    IF outcome = "throw"
    THEN SubSeq(es, 1, Len(es) - 1)
    ELSE [es EXCEPT ![Len(es)] = [@ EXCEPT !.inside = FALSE, !.idx = @ + 1]]

CommandListenerDone(outcome) ==
    /\ emitting # <<>>
    /\ Last(emitting).inside
    /\ emitting' = EmitAfterListener(emitting, outcome)
    /\ UNCHANGED <<heard, sends>>
    /\ EmitRest

\* every listener was called: emit and sendCommand return
EmitReturns ==
    /\ emitting # <<>>
    /\ ~Last(emitting).inside
    /\ Last(emitting).idx > Len(CommandOrder)
    /\ emitting' = SubSeq(emitting, 1, Len(emitting) - 1)
    /\ UNCHANGED <<heard, sends>>
    /\ EmitRest

NextEmit ==
    \/ SendCommand
    \/ Deliver
    \/ \E o \in ListenerOutcomes : CommandListenerDone(o)
    \/ EmitReturns

----------------------------------------------------------------------------
(* LogWindow.handleExport *)

\* entries of the list of LogWindow: with and without source, stack and
\* context, the context a plain object or one that refers to itself; only
\* error and fatal give addLog a stack
ExportEntries ==
    [ timestamp : {1}, level : {"error"}, message : {"disk failure"},
      stack : {None, "at X"}, source : {None, "FileLoader"},
      context : {None, "{file:1}", Circular} ]
    \cup
    [ timestamp : {1}, level : {"info"}, message : {"ready"},
      stack : {None}, source : {None, "FileLoader"},
      context : {None, "{file:1}", Circular} ]

\* the filter state of LogWindow
WindowFilters == {"all", "error"}

\* Date.toISOString()
ToISOString(t) == "2026-01-0" \o ToString(t) \o "T00:00:00.000Z"

\* String.toUpperCase() of a LogLevel
ToUpperCase(level) ==
    CASE level = "debug" -> "DEBUG"
      [] level = "info"  -> "INFO"
      [] level = "warn"  -> "WARN"
      [] level = "error" -> "ERROR"
      [] level = "fatal" -> "FATAL"

\* JSON.stringify(context, null, 2) of a context that can be serialised
PrettyJson(context) ==
    IF context = "{file:1}" THEN "{\n  \"file\": 1\n}" ELSE context

\* if (x): an absent or empty value is passed over
Present(x) == x \notin {None, ""}

\* the callback of filteredLogs.map
ExportText(log) ==
    LET head == "[" \o ToISOString(log.timestamp) \o "] ["
                    \o ToUpperCase(log.level) \o "]"
        tagged == IF Present(log.source)
                  THEN head \o " [" \o log.source \o "]"
                  ELSE head
        line == tagged \o " " \o log.message
        stacked == IF Present(log.stack) THEN line \o "\n" \o log.stack ELSE line
    IN  IF Present(log.context)
        THEN stacked \o "\nContext: " \o PrettyJson(log.context)
        ELSE stacked

\* Array.join('\n\n')
RECURSIVE Join(_)
Join(texts) ==
    IF texts = <<>> THEN ""
    ELSE IF Len(texts) = 1 THEN texts[1]
    ELSE texts[1] \o "\n\n" \o Join(Tail(texts))

\* filteredLogs of LogWindow
FilteredLogs(list, filter) ==
    IF filter = "all" THEN list ELSE SelectSeq(list, LAMBDA e : e.level = filter)

\* handleExport up to the Blob: the text, unless JSON.stringify raised
HandleExport(list, filter) ==
    LET filtered == FilteredLogs(list, filter)
        raises == \E i \in 1..Len(filtered) :
                      /\ Present(filtered[i].context)
                      /\ StringifyRaises(filtered[i].context)
    IN  [done |-> TRUE, list |-> filtered, raised |-> raises,
         text |-> IF raises
                  THEN ""
                  ELSE Join([i \in 1..Len(filtered) |-> ExportText(filtered[i])])]

\* lists of entries up to the bound
ExportLists(n) == UNION { [1..k -> ExportEntries] : k \in 0..n }

\* the Export button of a window that shows the list, once per behaviour
Export(list, filter) ==
    /\ ~exported.done
    /\ exported' = HandleExport(list, filter)
    /\ UNCHANGED win
    /\ UNCHANGED <<callerVars, orderVars, relayVars, emitVars>>
    /\ UNCHANGED <<logVars, dispVars, sysVars>>

NextExport ==
    \E list \in ExportLists(MaxExport), filter \in WindowFilters : Export(list, filter)

----------------------------------------------------------------------------
(* LogWindow: the list it shows, kept up to date by a listener *)

\* the listener that the effect of LogWindow subscribes
WindowListener == "LW"

WindowRest ==
    /\ UNCHANGED exported
    /\ UNCHANGED <<callerVars, orderVars, relayVars, emitVars>>
    /\ UNCHANGED <<electronAPI, dispVars, sysVars>>

\* the effect of open: setLogs(logger.getLogs()), which is the array of the
\* store itself, and logger.subscribe(listener)
OpenWindow ==
    /\ ~win.open
    /\ frames = <<>>
    /\ SubscribeOp(WindowListener)
    /\ win' = [open |-> TRUE, shown |-> getLogs(NoFilter), alias |-> TRUE,
               since |-> <<>>]
    /\ WindowRest

\* the cleanup of the effect: unsubscribe
CloseWindow ==
    /\ win.open
    /\ frames = <<>>
    /\ UnsubscribeOp(WindowListener)
    /\ win' = [win EXCEPT !.open = FALSE, !.since = <<>>]
    /\ WindowRest

\* a record call of UI code; push changes the array the window shows while
\* that is the array of the store
WindowRecord(c) ==
    /\ frames = <<>>
    /\ RecordFrom(c, NoInbound, 0)
    /\ LET entry == Last(hist')
       IN  win' = [win EXCEPT
                     !.shown = IF win.alias THEN Append(@, entry) ELSE @,
                     !.alias = win.alias /\ Len(logs) + 1 <= maxLogs,
                     !.since = IF win.open THEN Append(@, entry) ELSE @]
    /\ WindowRest

\* the updater given to setLogs: prev when an entry with this id is in the
\* list, [...prev, entry] otherwise
AppendUnlessIdShown(prev, entry) ==
    IF \E i \in 1..Len(prev) : prev[i].id = entry.id
    THEN prev
    ELSE Append(prev, entry)

\* forEach visits the next element; the listener of the window updates the
\* list
WindowNotify ==
    /\ NotifyOp
    /\ LET f == Last(frames)
           next == AppendUnlessIdShown(win.shown, f.entry)
       IN  IF f.idx <= Len(listeners) /\ listeners[f.idx] = WindowListener
           THEN win' = [win EXCEPT !.shown = next,
                                   !.alias = win.alias /\ next = win.shown]
           ELSE UNCHANGED win
    /\ WindowRest

\* the Clear button: logger.clear(); setLogs([])
HandleClear ==
    /\ win.open
    /\ frames = <<>>
    /\ ClearOp
    /\ win' = [win EXCEPT !.shown = <<>>, !.alias = FALSE, !.since = <<>>]
    /\ WindowRest

\* logger.clear() called by other code: the store has a new array
WindowOtherClear ==
    /\ frames = <<>>
    /\ ClearOp
    /\ win' = [win EXCEPT !.alias = FALSE]
    /\ WindowRest

NextWindow ==
    \/ OpenWindow
    \/ CloseWindow
    \/ \E c \in RecordCalls : WindowRecord(c)
    \/ WindowNotify
    \/ ListenerDone("return")
    \/ Finish
    \/ HandleClear
    \/ WindowOtherClear

----------------------------------------------------------------------------
(* Specifications *)

Init == InitLog /\ InitDispatch /\ InitSys /\ InitObs /\ trace = FALSE

\* the same, keeping the history of each notification
InitTraced == InitLog /\ InitDispatch /\ InitSys /\ InitObs /\ trace = TRUE

\* the Log Store alone
LogSpec == Init /\ [][NextLog]_vars

\* the Dispatcher alone
DispatchSpec == Init /\ [][NextDispatch]_vars

\* the Log Store and the history of its notifications
NotifySpec == InitTraced /\ [][NextNotify]_vars

\* a window without the bridge to the backend
InitCaller == Init /\ ~electronAPI

\* the Log Store and a caller that keeps the arrays getLogs returned
CallerSpec == InitCaller /\ [][NextCaller]_vars

\* the Log Store and a caller that keeps the closures of subscribe
SubscriptionSpec == Init /\ [][NextSubscription]_vars

\* the Log Store with listeners that record while they are notified
ReentrantSpec == Init /\ [][NextReentrant]_vars

\* the Log Store with a bridge whose sends are slow, fail or never end
RelaySpec == InitTraced /\ [][NextRelay]_vars

\* the Logger with and without a communicator, the Log Store with and
\* without the bridge
FallbackSpec == InitTraced /\ [][NextFallback]_vars

\* one WorkerCommunicator and its "command" listeners
EmitSpec == Init /\ [][NextEmit]_vars

\* the export of LogWindow over lists of entries
ExportSpec == InitCaller /\ [][NextExport]_vars

\* the Log Store and the open or closed LogWindow
WindowSpec == Init /\ [][NextWindow]_vars

\* the table of LogWindow alone
SeveritySpec == Init /\ [][NextSeverity]_vars

\* the UI process and the backend, joined by the two channels
SystemSpec == Init /\ [][NextSystem]_vars

----------------------------------------------------------------------------
(* Properties of the Log Store, checked under LogSpec *)

\* C1: with no clear in between, the ids of the entries created by successive
\* record calls are strictly increasing in call order, and getLogs() without
\* a filter returns the live entries in the order of the calls that created
\* them.
C1_IdsAndOrderFollowCalls ==
    /\ \A i, j \in 1..Len(hist) :
          i < j => hist[i].call < hist[j].call /\ hist[i].id < hist[j].id
    /\ LET got == getLogs(NoFilter)
       IN  /\ \A i, j \in 1..Len(got) : i < j => got[i].call < got[j].call
           /\ \A i \in 1..Len(got) : \E k \in 1..Len(hist) : got[i] = hist[k]

C1_Witness ==
    /\ Len(hist) >= 3
    /\ Len(getLogs(NoFilter)) = maxLogs
    /\ frames = <<>>

\* C2: in every state a caller or a listener can observe, also inside a
\* notification, the store holds at most maxLogs entries.
C2_AtMostMaxLogs == getLogCount <= maxLogs

C2_Witness ==
    /\ Len(hist) > maxLogs
    /\ getLogCount = maxLogs
    /\ frames # <<>>
    /\ Last(frames).inside

\* C3: after more than maxLogs record calls with no clear, the count is
\* maxLogs, the live entries are the maxLogs most recently recorded ones in
\* recording order, and every older entry is gone.
C3_KeepsMostRecent ==
    Len(hist) > maxLogs =>
        /\ getLogCount = maxLogs
        /\ \A i \in 1..maxLogs : logs[i] = hist[Len(hist) - maxLogs + i]
        /\ \A k \in 1..(Len(hist) - maxLogs) :
              \A i \in 1..Len(logs) : logs[i] # hist[k]

C3_Witness ==
    /\ Len(hist) = maxLogs + 2
    /\ getLogCount = maxLogs

\* C4: after clear() the store is empty, and the next record call creates the
\* entry with id 0 whatever ids were allocated before the clear.
C4_ClearEmptiesAndRestartsIds ==
    /\ hist = <<>> => getLogCount = 0 /\ getLogs(NoFilter) = <<>>
    /\ hist # <<>> => hist[1].id = 0

C4_Witness ==
    /\ Len(hist) = 1
    /\ hist[1].call = 3
    /\ hist[1].id = 0
    /\ logs = <<hist[1]>>

\* C5: no two live entries have the same id, also when record or clear is
\* called from a listener during a notification.
C5_LiveIdsDistinct ==
    \A i, j \in 1..Len(logs) : i # j => logs[i].id # logs[j].id

\* a listener cleared the store and recorded while it was being notified: the
\* new entry has the id of the entry under notification
C5_Witness ==
    /\ Len(frames) = 2
    /\ frames[1].entry.id = frames[2].entry.id
    /\ Len(logs) >= 1

----------------------------------------------------------------------------
(* Properties of the Dispatcher, checked under DispatchSpec *)

Handled == last.op = "handleCommand"

C7_RejectionLoggedOnce ==
    (last.op = "settle" /\ last.path = "reject")
    => /\ sent = <<LogCommand(LogLevelERROR,
                      "Error in async callback for " \o ConstructorName(last.cls)
                          \o ": " \o ErrorDetail(last.value),
                      last.value.stack, "WorkerCommunicator")>>
       /\ ran = <<>>
       /\ ~last.raised

\* C8: when the callback throws synchronously, handleCommand emits exactly one
\* ERROR LogCommand carrying the error's message and stack with source
\* 'WorkerCommunicator', and returns; the callback was invoked once.
C8_SyncThrowLoggedOnce ==
    (Handled /\ last.path = "invoked" /\ last.outcome = "throw")
    => /\ sent = <<LogCommand(LogLevelERROR,
                      "Error in callback for " \o ConstructorName(last.cls)
                          \o ": " \o ErrorDetail(last.value),
                      last.value.stack, "WorkerCommunicator")>>
       /\ Len(ran) = 1
       /\ ~last.raised

\* C9: whatever the command and whatever the callback does, handleCommand
\* returns normally and no error escapes the dispatcher, neither from
\* handleCommand nor from the continuation of a rejected promise.
C9_NothingEscapes == ~last.raised

\* C10: handleCommand and the settling of a promise never change the
\* registry, and handleCommand of a command whose class has a callback invokes
\* exactly that callback, once.
C10_RegistryOnlyChangedByRegister ==
    [][ /\ last'.op # "register" => callbacks' = callbacks
        /\ ( /\ last'.op = "handleCommand"
             /\ last'.cls # "LogCommand"
             /\ callbacks[last'.cls] # None )
           => ran' = <<callbacks[last'.cls]>> ]_vars

\* a dispatch invoked its callback after another class's callback had thrown
\* or is still pending
C10_Witness ==
    /\ Handled
    /\ last.path = "invoked"
    /\ last.outcome = "return"
    /\ pending # <<>>
    /\ last.cls # pending[1]
    /\ ran = <<callbacks[last.cls]>>

\* C11: handleCommand of a LogCommand forwards that same command, once, on
\* the "command" event; no callback is invoked, also when one is registered
\* for the LogCommand class, and no further LogCommand is created.
C11_LogCommandForwardedOnly ==
    (Handled /\ last.cls = "LogCommand")
    => /\ sent = <<last.cmd>>
       /\ ran = <<>>
       /\ ~last.raised

C11_Witness ==
    /\ Handled
    /\ last.cmd = LogCommand(LogLevelINFO, "loaded", None, None)
    /\ callbacks["LogCommand"] = "h1"
    /\ sent = <<last.cmd>>

\* C13: an operation of the dispatcher invokes at most one callback: one
\* handleCommand invokes the callback it found at most once, also when the
\* callback throws, and the rejection of the promise invokes none.
C13_AtMostOneInvocation ==
    /\ Len(ran) <= 1
    /\ last.op = "settle" => ran = <<>>
    /\ (Handled /\ last.path # "invoked") => ran = <<>>

C13_Witness ==
    /\ Handled
    /\ last.outcome = "throw"
    /\ last.value = ErrBoom
    /\ ran = <<callbacks[last.cls]>>

\* C14: registerCallback for a class that already has a callback overwrites
\* it without raising: the registry holds the new callback for the class,
\* and a later handleCommand of the class invokes the callback registered
\* last and no other.
C14_ReRegisterOverwrites ==
    /\ last.op = "register" => callbacks[last.cls] = last.cb /\ ~last.raised
    /\ \A c \in CommandClasses : callbacks[c] = registered[c]
    /\ (Handled /\ last.path = "invoked") => ran = <<registered[last.cls]>>
    /\ (Handled /\ last.cls # "LogCommand" /\ registered[last.cls] # None)
           => last.path = "invoked"

C14_Witness ==
    /\ last.op = "register"
    /\ last.prev = "h1"
    /\ last.cb = "h2"
    /\ callbacks[last.cls] = "h2"

\* history: the addLog activation on top, when its forEach is over
ForEachOver ==
    IF frames = <<>> THEN FALSE
    ELSE ~Last(frames).inside /\ Last(frames).idx > Len(listeners)

\* history: the listeners that are in the Set
Subscribed == { listeners[i] : i \in 1..Len(listeners) } \ {Deleted}

\* C12: the composed system does not loop on logging.  Stated for finite
\* runs: the log commands that one call from outside the logging path sets
\* off do not come round.  LogWindow records an arrived command that has one
\* crossing of the process boundary behind it (it was made in the backend)
\* or two (it was relayed by the UI service and forwarded back); it never
\* records one with more, which would be the second recording in one chain,
\* relayed again like the first.
C12_LoggingSettles ==
    \A i \in 1..Len(frames) : frames[i].hops <= 2

\* C15: the table applied to the level of a received command gives debug for
\* 2, info for 4, warn for 6, error for 8, fatal for 1000, and info for every
\* other level and for a missing one.
C15_FromNumericTable ==
    /\ probe.code = 2 => probe.level = "debug"
    /\ probe.code = 4 => probe.level = "info"
    /\ probe.code = 6 => probe.level = "warn"
    /\ probe.code = 8 => probe.level = "error"
    /\ probe.code = 1000 => probe.level = "fatal"
    /\ probe.code \notin {2, 4, 6, 8, 1000} => probe.level = "info"

C15_Witness ==
    /\ probe.code = 1001
    /\ probe.level = "info"

\* C16: a log command made by the relay of the UI service, by the backend
\* Logger or by the dispatcher as a diagnostic carries the code of the level
\* it was recorded with: 2 for debug, 4 for info, 6 for warn, 8 for error,
\* 1000 for fatal.
C16_WireLevelIsSeverityCode ==
    LET code(level) == CASE level = "debug" -> 2
                         [] level = "info"  -> 4
                         [] level = "warn"  -> 6
                         [] level = "error" -> 8
                         [] level = "fatal" -> 1000
        \* the entries whose addLog has returned: they were relayed in this
        \* order, and the backend takes the relayed commands from the front
        returned == IF frames = <<>> THEN hist ELSE SubSeq(hist, 1, Len(hist) - 1)
        behind == Len(returned) - Len(relay)
    IN  /\ \A i \in 1..Len(relay) :
               /\ relay[i].level \in {2, 4, 6, 8, 1000}
               /\ relay[i].level = code(returned[behind + i].level)
        /\ last.op = "logger"
               => \A i \in 1..Len(sent) : sent[i].level = code(last.path)
        /\ (Handled /\ last.path = "nohandler")
               => \A i \in 1..Len(sent) : sent[i].level = code("warn")
        /\ (Handled /\ last.path = "invoked")
               => \A i \in 1..Len(sent) : sent[i].level = code("error")
        /\ last.op = "settle"
               => \A i \in 1..Len(sent) : sent[i].level = code("error")

C16_Witness ==
    /\ last.op = "logger"
    /\ last.path = "error"
    /\ Len(sent) = 1
    /\ sent[1].level = 8
    /\ relay # <<>>
    /\ Last(relay).level = 8

\* C17: the entry recorded for a log command that arrived has the level the
\* receiving table gives for the level of the command, fatal for 1000.
C17_InboundSeverityKept ==
    \A i \in 1..Len(frames) :
        frames[i].from.type # None
            => frames[i].entry.level = fromNumeric(frames[i].from.level)

\* C18: a listener that throws stops nothing: when the forEach of that call
\* is over, every listener in the Set has been invoked for the entry, and a
\* listener that threw is still in the Set, unless listeners changed the Set
\* meanwhile, so that the next call invokes it again.
C18_ThrowingListenerIsolated ==
    (frames # <<>> /\ Last(frames).threw # {})
    => LET f == Last(frames)
           invoked == { f.notified[i] : i \in 1..Len(f.notified) }
       IN  /\ ForEachOver => Subscribed \subseteq invoked
           /\ ~f.churn => f.threw \subseteq Subscribed

C18_Witness ==
    /\ ForEachOver
    /\ Last(frames).notified = <<"L1", "L2">>
    /\ Last(frames).threw = {"L1"}
    /\ Last(frames).entry.call = 2

\* C19: listeners that throw add no entry and take no id: the ids handed out
\* since the last clear are as many as the record calls since then, and the
\* store holds the entries of these calls up to its capacity.
C19_ListenerFailureAddsNoEntry ==
    /\ nextId = Len(hist)
    /\ Len(logs) = IF Len(hist) <= maxLogs THEN Len(hist) ELSE maxLogs
    /\ \A i \in 1..Len(logs) : \E j \in 1..Len(hist) : logs[i] = hist[j]

C19_Witness ==
    /\ ForEachOver
    /\ Last(frames).threw = {"L1", "L2"}
    /\ Len(hist) = 1
    /\ nextId = 1
    /\ logs = <<Last(frames).entry>>

\* C20: addLog invokes the listeners after the entry is appended and the
\* store trimmed, and before it returns: when forEach starts the entry is
\* the newest of the store; when it is over every listener in the Set has
\* been invoked, and if the Set was not changed meanwhile these are the
\* listeners of the Set, each once, in the order of their subscription.
C20_NotifiesAllInOrder ==
    frames # <<>>
    => LET f == Last(frames)
           invoked == { f.notified[i] : i \in 1..Len(f.notified) }
       IN  /\ (f.idx = 1 /\ ~f.inside)
                  => /\ logs # <<>>
                     /\ Last(logs) = f.entry
                     /\ Len(logs) <= maxLogs
           /\ ForEachOver => Subscribed \subseteq invoked
           /\ (ForEachOver /\ ~f.churn) => f.notified = Compact(listeners)

C20_Witness ==
    /\ ForEachOver
    /\ ~Last(frames).churn
    /\ Last(frames).notified = <<"L2", "L1">>
    /\ Len(hist) = 3
    /\ Len(logs) = maxLogs

\* C21: the closure returned by subscribe removes the subscription it was
\* returned for and no other: a listener is in the Set exactly when some
\* subscribe call for it returned a closure that has not been invoked.
C21_ClosureRemovesOwnSubscription ==
    \A l \in Listeners :
        l \in Subscribed
            <=> \E k \in 1..Len(tokens) : tokens[k].listener = l /\ ~tokens[k].invoked

\* C22: every subscriber is handed the entries in the order of the record
\* calls that made them, record calls made by a listener while it is being
\* notified included: what a listener was handed is in rising call order.
C22_ObservedInCallOrder ==
    \A l \in Listeners :
        \A i, j \in 1..Len(observed[l]) :
            i < j => observed[l][i] < observed[l][j]

\* C23: a failure of the relay, a sendCommand that throws or a promise that
\* is rejected, is swallowed: the step that takes the failure leaves the
\* entries, the id counter and the record of calls as they are, invokes no
\* listener, hands no command to the bridge, and when the send threw addLog
\* returns in that step as it does after a send that worked.
C23_RelayFailureSwallowed ==
    [][ failures' # failures
        => /\ logs' = logs
           /\ nextId' = nextId
           /\ hist' = hist
           /\ listeners' = listeners
           /\ relay' = relay
           /\ \A i \in 1..Len(frames') : frames'[i] = frames[i]
           /\ IF failures'.thrown > failures.thrown
              THEN /\ attempts' = attempts + 1
                   /\ Len(frames') = Len(frames) - 1
              ELSE /\ attempts' = attempts
                   /\ frames' = frames ]_vars

C23_Witness ==
    /\ failures.thrown > 0
    /\ failures.rejected > 0
    /\ Len(logs) = maxLogs
    /\ listeners # <<>>

\* C24: for each entry the listeners are notified before the entry is handed
\* to the bridge: when sendCommand is called, forEach of that addLog is over
\* and has invoked every listener of the Set, and the command handed over is
\* the one of that entry.
C24_NotifiedBeforeRelay ==
    [][ attempts' > attempts
        => /\ frames # <<>>
           /\ LET f == Last(frames)
                  invoked == { f.notified[i] : i \in 1..Len(f.notified) }
              IN  /\ ~f.inside
                  /\ Subscribed \subseteq invoked
                  /\ f.notified = listeners
                  /\ relay' # relay
                         => /\ Last(relay').message = f.entry.message
                            /\ Last(relay').level = toNumeric(f.entry.level) ]_vars

C24_Witness ==
    /\ attempts = 2
    /\ Len(relay) = 2
    /\ listeners = <<"L2", "L1">>
    /\ frames = <<>>

\* C25: a record call never waits for the relay: addLog returns in the step
\* that calls sendCommand, whatever the send does, and the settling of a send
\* (late, or never) touches no addLog activation; record calls run while
\* sends are pending.
C25_RecordNeverWaits ==
    [][ /\ attempts' > attempts => Len(frames') = Len(frames) - 1
        /\ awaiting' < awaiting => (frames' = frames /\ calls' = calls) ]_vars

C25_Witness ==
    /\ awaiting = 2
    /\ failures.thrown = 1
    /\ Len(frames) = 1
    /\ calls = 4

\* C26: getLogs(filter) returns exactly the live entries that match every
\* given field of the filter (level equal to filter.level, source equal to
\* filter.source) in insertion order, and all live entries without a filter:
\* until the store changes, what getLogs returned is the entries of the store
\* that match every field the filter has, in their order.
C26_GetLogsReturnsMatching ==
    (held.given /\ held.fresh)
    => held.returned =
           SelectSeq(logs, LAMBDA e :
               /\ held.filter.level # None => e.level = held.filter.level
               /\ held.filter.source # None => e.source = held.filter.source)

\* C28: an entry leaves the store only by eviction inside a record call or
\* by clear; subscribe, unsubscribe, getLogs and getLogCount leave the
\* entries and the id counter as they are; the entries of the store are as
\* the record calls made them.
C28_EntriesLeaveByEvictionOrClear ==
    [][ /\ (\E i \in 1..Len(logs) : \A j \in 1..Len(logs') : logs'[j] # logs[i])
            => \/ calls' > calls
               \/ (logs' = <<>> /\ nextId' = 0)
        /\ (\/ issued' # issued
            \/ (listeners' # listeners /\ frames' = frames)
            \/ (held' # held /\ held'.fresh)
            \/ count' # count)
            => (logs' = logs /\ nextId' = nextId)
        /\ \A j \in 1..Len(logs') : \E k \in 1..Len(hist') : hist'[k] = logs'[j] ]_vars

\* C29: the array getLogs returns is not the array of the store: a later
\* record call does not change what was returned, and a caller that changes
\* the array it was given does not change the store.
C29_ReturnedSequenceNotShared ==
    [][ /\ (held'.given /\ ~held'.touched) => held'.value = held'.returned
        /\ (held'.touched /\ held'.value # held.value) => logs' = logs ]_vars

\* C27: without a transport logging is not fatal.  A Logger call made with
\* no communicator sends no command, calls the console method of its level
\* and returns; a record call in a window without electronAPI hands nothing
\* to a bridge, and when its forEach is over the entry is in the store and
\* every listener was invoked; a Logger call made with a communicator sends
\* exactly one log command.
C27_NoTransportNotFatal ==
    /\ last.op = "logger"
           => IF last.outcome # "none"
              THEN /\ sent = <<>>
                   /\ ~last.raised
                   /\ last.outcome = ConsoleFallback(LoggerLevel(last.path))
              ELSE /\ Len(sent) = 1
                   /\ ~last.raised
    /\ ~electronAPI
           => /\ relay = <<>>
              /\ ForEachOver
                     => /\ Last(logs) = Last(frames).entry
                        /\ Last(frames).notified = listeners

\* C30: commands sent on one WorkerCommunicator reach its "command"
\* listeners in the order they were sent: what a listener was given is in
\* the order of the sendCommand calls.
C30_LocalFifo ==
    \A l \in CommandListeners :
        \A i, j \in 1..Len(heard[l]) :
            i < j => heard[l][i] < heard[l][j]

\* C31: the export of a list is, entry by entry in list order, the line
\* '[<ISO timestamp>] [<SEVERITY>] [<source>] <message>' without the source
\* segment when there is no source, then the stack on the next line if there
\* is one, then a 'Context: ...' block if there is a context; entries are
\* separated by one blank line, and nothing follows the last one.
C31_ExportFormat ==
    exported.done
    => LET Block(e) ==
               "[" \o ToISOString(e.timestamp) \o "] [" \o ToUpperCase(e.level) \o "]"
               \o (IF e.source = None THEN "" ELSE " [" \o e.source \o "]")
               \o " " \o e.message
               \o (IF e.stack = None THEN "" ELSE "\n" \o e.stack)
               \o (IF e.context = None THEN ""
                   ELSE "\nContext: " \o PrettyJson(e.context))
           n == Len(exported.list)
           Upto[k \in 0..n] ==
               IF k = 0 THEN ""
               ELSE IF k = 1 THEN Block(exported.list[1])
               ELSE Upto[k - 1] \o "\n" \o "\n" \o Block(exported.list[k])
       IN  /\ ~exported.raised
           /\ exported.text = Upto[n]

\* C32: a record call notifies each subscribed listener at most once for its
\* entry, also when listeners subscribe or unsubscribe, themselves or others,
\* during the notification: no listener is twice among those an addLog
\* activation has invoked.
C32_NotifiedAtMostOnce ==
    \A k \in 1..Len(frames) :
        \A i, j \in 1..Len(frames[k].notified) :
            i # j => frames[k].notified[i] # frames[k].notified[j]

\* C33: the two tables of the severity round-trip: the table of the
\* receiving side takes the code that the relaying side (levelMap of
\* sendToBackend, LogLevel of the backend) gives for a severity back to that
\* severity, for debug, info, warn, error and fatal.
C33_SeverityRoundTrip ==
    \A s \in LogLevel :
        (probe.code = toNumeric(s) \/ probe.code = LoggerLevel(s))
            => probe.level = s

C33_Witness ==
    /\ probe.code = toNumeric("fatal")
    /\ probe.code = LoggerLevel("fatal")
    /\ probe.level = "fatal"

\* C34: recording a log command that arrived keeps its content: the entry
\* made for it has the message, the stack (or none) and the source of the
\* command, whatever its level.
C34_InboundContentKept ==
    \A i \in 1..Len(frames) :
        frames[i].from.type # None
            => /\ frames[i].entry.message = frames[i].from.message
               /\ frames[i].entry.stack = frames[i].from.stack
               /\ frames[i].entry.source = frames[i].from.source

\* C35: the dispatcher emits a log command only on failure: handleCommand of
\* a command whose callback returns, a value or a promise, emits nothing and
\* raises nothing, and nothing is emitted when the promise is resolved.
C35_NoLogOnSuccess ==
    /\ (Handled /\ last.path = "invoked" /\ last.outcome \in {"return", "promise"})
           => (sent = <<>> /\ ~last.raised)
    /\ (last.op = "settle" /\ last.path = "resolve")
           => (sent = <<>> /\ ~last.raised)

C35_Witness ==
    /\ last.op = "settle"
    /\ last.path = "resolve"
    /\ last.cls = "BarCommand"
    /\ callbacks["BarCommand"] = "h2"
    /\ sent = <<>>

\* C36: clear leaves the subscriptions as they are: the step of clear changes
\* neither the Set of listeners nor any addLog activation (it notifies no
\* one), the record call that follows it makes the entry with id 0, and when
\* the forEach of a record call is over every listener in the Set has been
\* invoked for its entry.
C36_ClearKeepsSubscriptions ==
    [][ /\ (hist # <<>> /\ hist' = <<>>)
            => (listeners' = listeners /\ issued' = issued /\ frames' = frames)
        /\ (calls' > calls /\ hist = <<>>)
            => Last(frames').entry.id = 0
        /\ ForEachOver'
            => Subscribed' \subseteq
                   { Last(frames').notified[i] : i \in 1..Len(Last(frames').notified) } ]_vars

C36_Witness ==
    /\ ForEachOver
    /\ Last(frames).entry.id = 0
    /\ Last(frames).entry.call = 3
    /\ Last(frames).notified = <<"L1", "L2">>
    /\ ~Last(frames).churn

\* C37: while the window is open its list contains every entry recorded
\* since it loaded the existing logs (or emptied its list), each once and in
\* recording order, whatever record calls and clears were made, by the window
\* or by other code.
C37_WindowShowsEveryEntry ==
    (win.open /\ frames = <<>>)
    => SelectSeq(win.shown,
                 LAMBDA e : \E i \in 1..Len(win.since) : win.since[i] = e)
           = win.since

\* C38: with the bridge present each record call hands exactly one log
\* command to it, with the severity code, message, stack and source of its
\* entry: sendCommand is called once in the step in which an addLog returns
\* and in no other step, and the command that is handed over is the one of
\* the entry of that addLog.
C38_OneRelayPerRecord ==
    [][ IF Len(frames') < Len(frames)
        THEN IF electronAPI
             THEN /\ attempts' = attempts + 1
                  /\ relay' # relay
                         => relay' = Append(relay,
                                WireCommand("LogCommand",
                                            toNumeric(Last(frames).entry.level),
                                            Last(frames).entry.message,
                                            Last(frames).entry.stack,
                                            Last(frames).entry.source))
                  /\ relay' = relay => failures'.thrown = failures.thrown + 1
             ELSE attempts' = attempts /\ relay' = relay
        ELSE attempts' = attempts /\ relay' = relay ]_vars

C38_Witness ==
    /\ electronAPI
    /\ frames = <<>>
    /\ calls = 3
    /\ attempts = 3
    /\ Len(relay) = 3
    /\ relay[3].level = 8
    /\ relay[3].source = "FileLoader"

====
